---- MODULE Spec2Model ----
(***************************************************************************)
(* Customer service: Flask handlers (app.py), error translator (errors.py), *)
(* document-store gateway (db.py) and the structlog processor chain         *)
(* (logger_config.py), modelled as request workers running concurrently     *)
(* against one shared collection and one process-global client handle.      *)
(***************************************************************************)
EXTENDS Integers, Sequences, FiniteSets, TLC

\* ---------------------------------------------------------------- bounds
MaxRequests == 2
MaxOid == 3

Workers == {"w1", "w2"}

\* Python None, as a header value, a correlation id or a projection result.
None == "None"
Headers == {None, "c1", "c2"}
\* The X-Correlation-Id values the clients of each worker send.
HeadersOf(w) == IF w = "w1" THEN {None, "c1"} ELSE {"c1", "c2"}
Times == {"t1", "t2"}
\* TimeStamper(fmt="iso"): the rendered time of a log call.
IsoNow == "2024-01-01T00:00:00Z"
\* str(e) of the exceptions the driver can raise from a collection operation.
ExcTexts == {"ServerSelectionTimeoutError: mongo:27017"}
Ok == "ok"

\* The hexadecimal renderings of the ObjectIds the process generates, in
\* generation order; every other path string is malformed.
OidStr == <<"o1", "o2", "o3", "o4", "o5">>
Malformed == "zz"
PathIds == {Malformed, "o1", "o2"}

\* ------------------------------------------------------------ JSON bodies
\* A JSON object is a function from keys to strings.  The empty function
\* stands for both a missing body (None) and {}: every test the code makes
\* on a body ("not data", "key in data", isinstance dict then "key in body")
\* has the same outcome for the two.
EmptyBody == [k \in {} |-> ""]
CustomerBody == [k \in {"name", "email", "phone"} |->
                   CASE k = "name" -> "alice"
                     [] k = "email" -> "a@x.org"
                     [] OTHER -> "555"]
AddressBody == [k \in {"line1", "city", "pincode"} |->
                   CASE k = "line1" -> "1 main st"
                     [] k = "city" -> "pune"
                     [] OTHER -> "411001"]

Put(f, k, v) == [x \in (DOMAIN f) \cup {k} |-> IF x = k THEN v ELSE f[x]]

\* data.get(k): None when the key is absent.
Get(f, k) == IF k \in DOMAIN f THEN f[k] ELSE None

\* ------------------------------------------------------------- utils / ids
\* bson.ObjectId(s): 0 stands for raising InvalidId.
ObjectId(s) ==
    IF \E i \in 1..Len(OidStr) : OidStr[i] = s
    THEN CHOOSE i \in 1..Len(OidStr) : OidStr[i] = s
    ELSE 0

\* MongoJSONEncoder.default: ObjectId -> str(obj).
EncodeId(oid) == OidStr[oid]

\* --------------------------------------------------------- logger_config
PII_FIELDS == {"email", "phone", "line1"}
REDACTED == "REDACTED"

Redact(body) == [k \in DOMAIN body |-> IF k \in PII_FIELDS THEN REDACTED ELSE body[k]]

\* mask_pii_processor: the event dict it returns; the bodies are redacted.
mask_pii_processor(ed) ==
    [f \in DOMAIN ed |->
        IF f \in {"request_body", "response_body"} THEN Redact(ed[f]) ELSE ed[f]]

add_logger_name(ed, name) == Put(ed, "logger", name)
add_log_level(ed, method) == Put(ed, "level", method)
TimeStamper(ed, now) == Put(ed, "timestamp", now)

\* The lambda of the chain, run with a request in flight: its return value
\* becomes the event dict of the processors after it.
\* (variant: a processor that adds the key to the event dict it was given)
MergingCorrelationProcessor(ed, hdr) == Put(ed, "correlation_id", hdr)
CorrelationProcessor(ed, hdr) == [k \in {"correlation_id"} |-> hdr]

\* The event dict as it enters mask_pii_processor.
BeforeMask(ed, name, method, hdr) ==
    CorrelationProcessor(TimeStamper(add_log_level(add_logger_name(ed, name), method), IsoNow), hdr)

\* structlog.configure(processors=[...]): the event dict handed to the
\* stdlib logger (wrap_for_formatter passes it through as the record's msg).
Processors(ed, name, method, hdr) ==
    mask_pii_processor(BeforeMask(ed, name, method, hdr))

\* What the in-place assignment body[key] = "REDACTED" leaves in the mapping
\* object passed as request_body.
BodyAfterLog(body, ed, name, method, hdr) ==
    IF "request_body" \in DOMAIN BeforeMask(ed, name, method, hdr)
    THEN Redact(body)
    ELSE body

\* root_logger.addHandler(console_handler); addHandler(otlp_handler): one
\* record per handler, each rendering the same event dict.
Destinations == {"console", "remote"}
LogRecords(call, name, method, hdr) ==
    {[dest |-> d, call |-> call, fields |-> Processors(call, name, method, hdr)] :
        d \in Destinations}


\* MongoJSONProvider.dumps of a stored document: ids become strings.
RenderAddress(a) ==
    [_id |-> EncodeId(a._id), line1 |-> a.line1, area |-> a.area, city |-> a.city,
     pincode |-> a.pincode, created_at |-> a.created_at]
RenderCustomer(c) ==
    [_id |-> EncodeId(c._id), name |-> c.name, email |-> c.email, phone |-> c.phone,
     addresses |-> [i \in DOMAIN c.addresses |-> RenderAddress(c.addresses[i])],
     created_at |-> c.created_at]

\* ------------------------------------------------------------------ state
VARIABLES
    customers,      \* db.customers: the documents in natural (insertion) order
    uniqueIndexes,  \* whether the deployment created the unique email/phone indexes
    client,         \* db.py: the module-global client; 0 is None
    constructed,    \* number of MongoClient objects constructed by this process
    nextOid,        \* next ObjectId the process generates
    served,         \* requests accepted so far
    pc,             \* each worker's position in its request
    req,            \* the request a worker handles, as sent
    json,           \* the parsed body cached on the request object (one mapping object)
    ctx,            \* structlog contextvars of the worker's context
    gdb,            \* flask.g.db of the worker's application context; 0 is unset
    local,          \* handler locals kept across store calls
    resp,           \* the response of the worker's request
    emitted,        \* log records the handlers received during the worker's request
    validated,      \* the handler's input validation has succeeded
    touched         \* a store gateway step has run for the request

vars == <<customers, uniqueIndexes, client, constructed, nextOid, served, pc, req, json,
          ctx, gdb, local, resp, emitted, validated, touched>>

storeVars == <<customers, uniqueIndexes, client, constructed, nextOid>>

IdOps == {"GetCustomerById", "CreateAddress", "ListAddressesForCustomer", "GetAddressById"}

Request(op, id, hdr, body, page, limit) ==
    [op |-> op, id |-> id, hdr |-> hdr, body |-> body, page |-> page, limit |-> limit]

Requests ==
    {Request("CreateCustomer", "-", h, b, 1, 20) : h \in Headers, b \in {CustomerBody, EmptyBody}}
    \cup {Request("ListCustomers", "-", h, EmptyBody, pl[1], pl[2]) :
            h \in Headers, pl \in {<<1, 20>>, <<2, 1>>}}
    \cup {Request(op, id, h, EmptyBody, 1, 20) :
            op \in {"GetCustomerById", "ListAddressesForCustomer", "GetAddressById"},
            id \in PathIds, h \in Headers}
    \cup {Request("CreateAddress", id, h, b, 1, 20) :
            id \in PathIds, h \in Headers, b \in {AddressBody, EmptyBody}}
    \cup {Request("Unrouted", "-", h, EmptyBody, 1, 20) : h \in Headers}

NoRequest == Request("-", "-", None, EmptyBody, 1, 20)
NoLocal == [oid |-> 0, ts |-> None, matched |-> 0, wrote |-> FALSE]
\* after update_one: the generated address id, its timestamp, the result's
\* matched_count, and whether the collection differs from what the update found
Updated(oid, now, matched, wrote) == [oid |-> oid, ts |-> now, matched |-> matched, wrote |-> wrote]
Pending == [kind |-> "pending", status |-> 0, code |-> "-", message |-> "-",
            correlationId |-> None, data |-> <<>>]

\* What an earlier run of the service left in the collection: nothing, or
\* one customer with one address.
StoredCustomer ==
    [_id |-> 1, name |-> "bob", email |-> "b@x.org", phone |-> "777",
     addresses |-> <<[_id |-> 2, line1 |-> "9 hill rd", area |-> None, city |-> "goa",
                      pincode |-> "403001", created_at |-> "t0"]>>,
     created_at |-> "t0"]

Init ==
    /\ \/ customers = <<>> /\ nextOid = 1
       \/ customers = <<StoredCustomer>> /\ nextOid = 3
    /\ uniqueIndexes \in BOOLEAN
    /\ client = 0
    /\ constructed = 0
    /\ served = 0
    /\ pc = [w \in Workers |-> "idle"]
    /\ req = [w \in Workers |-> NoRequest]
    /\ json = [w \in Workers |-> EmptyBody]
    /\ ctx = [w \in Workers |-> [k \in {} |-> None]]
    /\ gdb = [w \in Workers |-> 0]
    /\ local = [w \in Workers |-> NoLocal]
    /\ resp = [w \in Workers |-> Pending]
    /\ emitted = [w \in Workers |-> {}]
    /\ validated = [w \in Workers |-> FALSE]
    /\ touched = [w \in Workers |-> FALSE]

\* ------------------------------------------------- request context (app.py)
\* clear_contextvars(); bind_contextvars(correlation_id=..., path=..., method=...)
\* (path and method are bound too; nothing ever reads them back)
\* (variant: no clear, and no bind when the header is absent)
KeepingContext(c, r) ==
    IF r.hdr = None THEN c ELSE [k \in {"correlation_id"} |-> r.hdr]
BoundContext(c, r) == [k \in {"correlation_id"} |-> r.hdr]

\* get_contextvars().get('correlation_id', 'not-available')
CorrelationOf(c) == IF "correlation_id" \in DOMAIN c THEN c["correlation_id"] ELSE "not-available"

\* log.info("request_started", request_body=request.get_json(silent=True))
StartedCall(body) ==
    [k \in {"event", "request_body"} |-> IF k = "event" THEN "request_started" ELSE body]

\* log.info("request_finished", status_code=response.status_code)
FinishedCall(status) ==
    [k \in {"event", "status_code"} |-> IF k = "event" THEN "request_finished" ELSE status]

before_request(w) ==
    /\ pc[w] = "idle"
    /\ served < MaxRequests
    /\ \E r \in {x \in Requests : x.hdr \in HeadersOf(w)} :
        /\ req' = [req EXCEPT ![w] = r]
        /\ ctx' = [ctx EXCEPT ![w] = BoundContext(@, r)]
        /\ json' = [json EXCEPT ![w] =
                      BodyAfterLog(r.body, StartedCall(r.body), "app", "info", r.hdr)]
        /\ emitted' = [emitted EXCEPT ![w] =
                      LogRecords(StartedCall(r.body), "app", "info", r.hdr)]
    /\ served' = served + 1
    /\ pc' = [pc EXCEPT ![w] = "dispatch"]
    /\ UNCHANGED <<storeVars, gdb, local, resp, validated, touched>>

\* after_request and the return to the server: the response leaves the worker.
after_request(w, r, logs) ==
    /\ resp' = [resp EXCEPT ![w] = r]
    /\ emitted' = [emitted EXCEPT ![w] =
            @ \cup logs \cup LogRecords(FinishedCall(r.status), "app", "info", req[w].hdr)]
    /\ pc' = [pc EXCEPT ![w] = "done"]

\* return jsonify(data), status
Return(w, status, data) ==
    after_request(w, [kind |-> "ok", status |-> status, code |-> "-", message |-> "-",
                      correlationId |-> None, data |-> data], {})

\* ------------------------------------------------------------- errors.py
Envelope(status, code, message, correlationId) ==
    [kind |-> "error", status |-> status, code |-> code, message |-> message,
     correlationId |-> correlationId, data |-> <<>>]

ApiErrorCall(message, status, code) ==
    [k \in {"event", "code", "status", "error"} |->
        CASE k = "event" -> "api_error"
          [] k = "code" -> code
          [] k = "status" -> status
          [] OTHER -> message]

\* raise ApiError(message, status_code, code), translated by handle_api_error
handle_api_error(w, message, status, code) ==
    after_request(w, Envelope(status, code, message, CorrelationOf(ctx[w])),
                  LogRecords(ApiErrorCall(message, status, code), "errors", "error", req[w].hdr))

NotFoundCall(path) ==
    [k \in {"event", "path"} |-> IF k = "event" THEN "not_found" ELSE path]

handle_not_found(w) ==
    after_request(w, Envelope(404, "NOT_FOUND", "The requested resource was not found",
                              CorrelationOf(ctx[w])),
                  LogRecords(NotFoundCall(req[w].op), "errors", "warning", req[w].hdr))

UnhandledCall(text) ==
    [k \in {"event", "error", "exc_info"} |->
        CASE k = "event" -> "unhandled_exception"
          [] k = "error" -> text
          [] OTHER -> "True"]

\* an exception no handler catches, translated by handle_generic_error
handle_generic_error(w, text) ==
    after_request(w, Envelope(500, "INTERNAL_ERROR", "An unexpected error occurred",
                              CorrelationOf(ctx[w])),
                  LogRecords(UnhandledCall(text), "errors", "error", req[w].hdr))


\* ------------------------------------------------------------------ db.py
\* The handler step that follows "db = get_db()".
AfterDb(op) ==
    CASE op = "CreateCustomer" -> "insert"
      [] op = "ListCustomers" -> "list"
      [] op = "GetCustomerById" -> "get_customer"
      [] op = "CreateAddress" -> "update"
      [] op = "ListAddressesForCustomer" -> "list_addresses"
      [] OTHER -> "get_address"

reqVars == <<req, json, ctx, served>>

\* get_db, and get_db_client up to its test "client is None".
get_db(w) ==
    /\ pc[w] = "get_db"
    /\ touched' = [touched EXCEPT ![w] = TRUE]
    /\ IF client = 0
       THEN /\ pc' = [pc EXCEPT ![w] = "connect"]
            /\ UNCHANGED gdb
       ELSE /\ gdb' = [gdb EXCEPT ![w] = client]
            /\ pc' = [pc EXCEPT ![w] = AfterDb(req[w].op)]
    /\ UNCHANGED <<storeVars, reqVars, local, resp, emitted, validated>>

\* client = MongoClient(uri)
connect(w) ==
    /\ pc[w] = "connect"
    /\ constructed' = constructed + 1
    /\ client' = constructed + 1
    /\ pc' = [pc EXCEPT ![w] = "ping"]
    /\ UNCHANGED <<customers, uniqueIndexes, nextOid, reqVars, gdb, local, resp, emitted,
                   validated, touched>>

\* sys.exit(1) inside the request: SystemExit is not an Exception, so no
\* error handler and no after_request runs and the client gets no response.
Exited == [kind |-> "exit", status |-> 0, code |-> "-", message |-> "-",
           correlationId |-> None, data |-> <<>>]

\* client.admin.command('ping') on the global, then "return client".
ping(w) ==
    /\ pc[w] = "ping"
    /\ \E reachable \in BOOLEAN :
        IF reachable
        THEN /\ gdb' = [gdb EXCEPT ![w] = client]
             /\ pc' = [pc EXCEPT ![w] = AfterDb(req[w].op)]
             /\ UNCHANGED resp
        ELSE /\ resp' = [resp EXCEPT ![w] = Exited]
             /\ pc' = [pc EXCEPT ![w] = "done"]
             /\ UNCHANGED gdb
    /\ UNCHANGED <<storeVars, reqVars, local, emitted, validated, touched>>

\* What a collection operation does: completes, or raises the exception.
Outcomes == {Ok} \cup ExcTexts

\* ------------------------------------------------ collection operations
\* find_one({"_id": id}): the matching documents, first one is the result.
find(coll, id) == SelectSeq(coll, LAMBDA d : d._id = id)

\* find_one({"addresses._id": id}, {"addresses.$": 1})
HasAddress(d, id) == \E i \in DOMAIN d.addresses : d.addresses[i]._id = id
find_by_address(coll, id) == SelectSeq(coll, LAMBDA d : HasAddress(d, id))

\* find(query).skip(offset).limit(limit)
skip_limit(coll, offset, limit) ==
    SubSeq(coll, offset + 1, IF offset + limit < Len(coll) THEN offset + limit ELSE Len(coll))

\* update_one({"_id": id}, {"$push": {"addresses": addr}}): the first match
\* gets the element appended; no match leaves the collection as it is.
\* (variant: the same update with upsert=True)
UpsertingPush(coll, id, addr) ==
    IF \E i \in DOMAIN coll : coll[i]._id = id
    THEN [i \in DOMAIN coll |->
            IF coll[i]._id = id THEN [coll[i] EXCEPT !.addresses = Append(@, addr)] ELSE coll[i]]
    ELSE Append(coll, [_id |-> id, name |-> None, email |-> None, phone |-> None,
                       addresses |-> <<addr>>, created_at |-> None])
update_one_push(coll, id, addr) ==
    [i \in DOMAIN coll |->
        IF coll[i]._id = id /\ \A j \in 1..(i - 1) : coll[j]._id # id
        THEN [coll[i] EXCEPT !.addresses = Append(@, addr)]
        ELSE coll[i]]

\* result.matched_count
matched_count(coll, id) == IF \E i \in DOMAIN coll : coll[i]._id = id THEN 1 ELSE 0

\* insert_one raising DuplicateKeyError on the unique email / phone indexes.
Duplicate(coll, doc) ==
    uniqueIndexes /\ \E i \in DOMAIN coll : coll[i].email = doc.email \/ coll[i].phone = doc.phone


\* ----------------------------------------------------------------- app.py
\* "if not data or not 'a' in data or ..."
Missing(data, keys) == data = EmptyBody \/ \E k \in keys : k \notin DOMAIN data

handlerVars == <<reqVars, gdb, local, touched>>

\* Validation passed: the handler goes on to "db = get_db()".
ToDb(w) ==
    /\ validated' = [validated EXCEPT ![w] = TRUE]
    /\ pc' = [pc EXCEPT ![w] = "get_db"]
    /\ UNCHANGED <<storeVars, handlerVars, resp, emitted>>

\* POST /v1/customers, up to get_db
create_customer(w) ==
    /\ pc[w] = "dispatch"
    /\ req[w].op = "CreateCustomer"
    /\ IF Missing(json[w], {"name", "email", "phone"})
       THEN /\ handle_api_error(w, "Name, email, and phone are required", 400, "BAD_REQUEST")
            /\ UNCHANGED <<storeVars, handlerVars, validated>>
       ELSE ToDb(w)

new_customer_doc(data, oid, now) ==
    [_id |-> oid, name |-> data["name"], email |-> data["email"], phone |-> data["phone"],
     addresses |-> <<>>, created_at |-> now]

\* new_customer_doc = {...}; result = db.customers.insert_one(new_customer_doc)
insert_one(w) ==
    /\ pc[w] = "insert"
    /\ nextOid <= MaxOid
    /\ \E now \in Times, out \in Outcomes :
        CASE out # Ok ->
                /\ handle_api_error(w, out, 500, "DATABASE_ERROR")
                /\ UNCHANGED <<storeVars, handlerVars, validated>>
          [] out = Ok /\ Duplicate(customers, new_customer_doc(json[w], nextOid, now)) ->
                /\ handle_api_error(w,
                      "Email or phone already exists. (Have you created unique indexes?)",
                      409, "CONFLICT")
                /\ UNCHANGED <<storeVars, handlerVars, validated>>
          [] OTHER ->
                /\ customers' = Append(customers, new_customer_doc(json[w], nextOid, now))
                /\ nextOid' = nextOid + 1
                /\ local' = [local EXCEPT ![w] = [NoLocal EXCEPT !.oid = nextOid, !.ts = now]]
                /\ pc' = [pc EXCEPT ![w] = "read_back"]
                /\ UNCHANGED <<uniqueIndexes, client, constructed, reqVars, gdb, touched,
                               resp, emitted, validated>>

\* new_customer = db.customers.find_one({"_id": result.inserted_id}); return 201
read_back(w) ==
    /\ pc[w] = "read_back"
    /\ \E out \in Outcomes :
        IF out # Ok
        THEN handle_api_error(w, out, 500, "DATABASE_ERROR")
        ELSE Return(w, 201, RenderCustomer(find(customers, local[w].oid)[1]))
    /\ UNCHANGED <<storeVars, handlerVars, validated>>

\* GET /v1/customers, up to get_db: nothing to validate
list_customers(w) ==
    /\ pc[w] = "dispatch"
    /\ req[w].op = "ListCustomers"
    /\ ToDb(w)

\* list(db.customers.find(query).skip(offset).limit(limit)), no email filter
find_page(w) ==
    /\ pc[w] = "list"
    /\ \E out \in Outcomes :
        IF out # Ok
        THEN handle_generic_error(w, out)
        ELSE LET page == req[w].page
                 limit == req[w].limit
                 offset == (page - 1) * limit
                 found == skip_limit(customers, offset, limit)
             IN Return(w, 200, [page |-> page, limit |-> limit,
                                data |-> [i \in DOMAIN found |-> RenderCustomer(found[i])]])
    /\ UNCHANGED <<storeVars, handlerVars, validated>>

\* GET /v1/customers/<customer_id>: "db = get_db()" is its first statement
get_customer_by_id(w) ==
    /\ pc[w] = "dispatch"
    /\ req[w].op = "GetCustomerById"
    /\ pc' = [pc EXCEPT ![w] = "get_db"]
    /\ UNCHANGED <<storeVars, handlerVars, resp, emitted, validated>>

\* obj_id = ObjectId(customer_id); customer = db.customers.find_one({"_id": obj_id})
find_customer(w) ==
    /\ pc[w] = "get_customer"
    /\ IF ObjectId(req[w].id) = 0
       THEN /\ handle_api_error(w, "Invalid customer_id format", 400, "BAD_REQUEST")
            /\ UNCHANGED validated
       ELSE /\ validated' = [validated EXCEPT ![w] = TRUE]
            /\ \E out \in Outcomes :
                CASE out # Ok -> handle_generic_error(w, out)
                  [] out = Ok /\ find(customers, ObjectId(req[w].id)) = <<>> ->
                        handle_api_error(w, "Customer not found", 404, "NOT_FOUND")
                  [] OTHER ->
                        Return(w, 200, RenderCustomer(find(customers, ObjectId(req[w].id))[1]))
    /\ UNCHANGED <<storeVars, handlerVars>>

\* POST /v1/customers/<customer_id>/addresses, up to get_db
create_address(w) ==
    /\ pc[w] = "dispatch"
    /\ req[w].op = "CreateAddress"
    /\ CASE ObjectId(req[w].id) = 0 ->
                /\ handle_api_error(w, "Invalid customer_id format", 400, "BAD_REQUEST")
                /\ UNCHANGED <<storeVars, handlerVars, validated>>
         [] ObjectId(req[w].id) # 0 /\ Missing(json[w], {"line1", "city", "pincode"}) ->
                /\ handle_api_error(w, "line1, city, and pincode are required", 400, "BAD_REQUEST")
                /\ UNCHANGED <<storeVars, handlerVars, validated>>
         [] OTHER -> ToDb(w)

new_address(data, oid, now) ==
    [_id |-> oid, line1 |-> data["line1"], area |-> Get(data, "area"), city |-> data["city"],
     pincode |-> data["pincode"], created_at |-> now]

\* new_address = {"_id": ObjectId(), ...}; update_one(..., {"$push": ...});
\* "if result.matched_count == 0" -> 404; return 201
push_address(w) ==
    /\ pc[w] = "update"
    /\ nextOid <= MaxOid
    /\ nextOid' = nextOid + 1
    /\ \E now \in Times, out \in Outcomes :
        LET id == ObjectId(req[w].id)
            addr == new_address(json[w], nextOid, now)
        IN CASE out # Ok ->
                    /\ handle_generic_error(w, out)
                    /\ UNCHANGED <<customers, local>>
             [] out = Ok /\ matched_count(customers, id) = 0 ->
                    /\ customers' = update_one_push(customers, id, addr)
                    /\ local' = [local EXCEPT ![w] = Updated(nextOid, now, 0, customers' # customers)]
                    /\ handle_api_error(w, "Customer not found", 404, "NOT_FOUND")
             [] OTHER ->
                    /\ customers' = update_one_push(customers, id, addr)
                    /\ local' = [local EXCEPT ![w] = Updated(nextOid, now, 1, customers' # customers)]
                    /\ Return(w, 201, RenderAddress(addr))
    /\ UNCHANGED <<uniqueIndexes, client, constructed, reqVars, gdb, touched, validated>>

\* GET /v1/customers/<customer_id>/addresses, up to get_db
list_addresses_for_customer(w) ==
    /\ pc[w] = "dispatch"
    /\ req[w].op = "ListAddressesForCustomer"
    /\ IF ObjectId(req[w].id) = 0
       THEN /\ handle_api_error(w, "Invalid customer_id format", 400, "BAD_REQUEST")
            /\ UNCHANGED <<storeVars, handlerVars, validated>>
       ELSE ToDb(w)

\* find_one({"_id": ...}, {"addresses": 1, "_id": 0}); customer.get('addresses', [])
find_addresses(w) ==
    /\ pc[w] = "list_addresses"
    /\ \E out \in Outcomes :
        LET found == find(customers, ObjectId(req[w].id))
        IN CASE out # Ok -> handle_generic_error(w, out)
             [] out = Ok /\ found = <<>> ->
                    handle_api_error(w, "Customer not found", 404, "NOT_FOUND")
             [] OTHER ->
                    Return(w, 200, [i \in DOMAIN found[1].addresses |->
                                        RenderAddress(found[1].addresses[i])])
    /\ UNCHANGED <<storeVars, handlerVars, validated>>

\* GET /v1/addresses/<address_id>, up to get_db
get_address_by_id(w) ==
    /\ pc[w] = "dispatch"
    /\ req[w].op = "GetAddressById"
    /\ IF ObjectId(req[w].id) = 0
       THEN /\ handle_api_error(w, "Invalid address_id format", 400, "BAD_REQUEST")
            /\ UNCHANGED <<storeVars, handlerVars, validated>>
       ELSE ToDb(w)

\* the positional projection "addresses.$": the first matching element
Positional(d, id) ==
    SelectSeq(d.addresses, LAMBDA a : a._id = id)

\* find_one({"addresses._id": ...}, {"_id": 0, "addresses.$": 1})
find_address(w) ==
    /\ pc[w] = "get_address"
    /\ \E out \in Outcomes :
        LET id == ObjectId(req[w].id)
            found == find_by_address(customers, id)
        IN CASE out # Ok -> handle_generic_error(w, out)
             [] out = Ok /\ found = <<>> ->
                    handle_api_error(w, "Address not found", 404, "NOT_FOUND")
             [] OTHER -> Return(w, 200, RenderAddress(Positional(found[1], id)[1]))
    /\ UNCHANGED <<storeVars, handlerVars, validated>>

\* teardown_appcontext: the request and application contexts are popped;
\* the request object, flask.g and the handler's locals are gone, the
\* worker's contextvars stay as they are.
teardown_db(w) ==
    /\ pc[w] = "done"
    /\ pc' = [pc EXCEPT ![w] = "idle"]
    /\ req' = [req EXCEPT ![w] = NoRequest]
    /\ json' = [json EXCEPT ![w] = EmptyBody]
    /\ gdb' = [gdb EXCEPT ![w] = 0]
    /\ local' = [local EXCEPT ![w] = NoLocal]
    /\ resp' = [resp EXCEPT ![w] = Pending]
    /\ emitted' = [emitted EXCEPT ![w] = {}]
    /\ validated' = [validated EXCEPT ![w] = FALSE]
    /\ touched' = [touched EXCEPT ![w] = FALSE]
    /\ UNCHANGED <<storeVars, ctx, served>>

\* a URL no route matches: the 404 handler
unrouted(w) ==
    /\ pc[w] = "dispatch"
    /\ req[w].op = "Unrouted"
    /\ handle_not_found(w)
    /\ UNCHANGED <<storeVars, handlerVars, validated>>

Next ==
    \E w \in Workers :
        \/ before_request(w)
        \/ get_db(w)
        \/ connect(w)
        \/ ping(w)
        \/ create_customer(w)
        \/ insert_one(w)
        \/ read_back(w)
        \/ list_customers(w)
        \/ find_page(w)
        \/ get_customer_by_id(w)
        \/ find_customer(w)
        \/ create_address(w)
        \/ push_address(w)
        \/ list_addresses_for_customer(w)
        \/ find_addresses(w)
        \/ get_address_by_id(w)
        \/ find_address(w)
        \/ unrouted(w)
        \/ teardown_db(w)

Spec == Init /\ [][Next]_vars


\* ----------------------------------------------------------------- claims
Done(w) == pc[w] = "done"

\* C1: a CreateAddress whose well-formed customer id matches no stored
\* customer, with a valid body, answers 404 NOT_FOUND and leaves the
\* collection exactly as the update found it.
C1_NoMatchIs404AndNoWrite ==
    \A w \in Workers :
        (/\ Done(w)
         /\ req[w].op = "CreateAddress"
         /\ local[w].oid # 0
         /\ local[w].matched = 0)
        => /\ resp[w].status = 404
           /\ resp[w].code = "NOT_FOUND"
           /\ ~local[w].wrote

C1_Witness ==
    \E w \in Workers :
        /\ Done(w)
        /\ req[w].op = "CreateAddress"
        /\ local[w].oid # 0
        /\ local[w].matched = 0
        /\ customers # <<>>
        /\ resp[w].status = 404

\* C2: every id-based operation answers a malformed identifier with 400,
\* whatever the store holds and whether or not the client handle exists yet.
C2_MalformedIdIs400 ==
    \A w \in Workers :
        (Done(w) /\ req[w].op \in IdOps /\ ObjectId(req[w].id) = 0)
        => resp[w].status = 400

\* C3: the document a successful CreateCustomer returns carries the
\* generated id, the timestamp the handler set, and no addresses.
C3_CreatedCustomerIsFresh ==
    \A w \in Workers :
        (Done(w) /\ req[w].op = "CreateCustomer" /\ resp[w].status = 201)
        => /\ resp[w].data._id = EncodeId(local[w].oid)
           /\ resp[w].data.created_at = local[w].ts
           /\ resp[w].data.addresses = <<>>

\* C4: a DATABASE_ERROR or INTERNAL_ERROR response never carries the text of
\* the exception behind it.
C4_GenericMessageOn500 ==
    \A w \in Workers :
        (Done(w) /\ resp[w].code \in {"DATABASE_ERROR", "INTERNAL_ERROR"})
        => resp[w].message \notin ExcTexts

\* C5: a log call whose request_body or response_body holds email, phone or
\* line1 reaches the console and the remote handler with that value replaced
\* by "REDACTED".
C5_BodiesRedactedAtEveryDestination ==
    \A w \in Workers : \A rec \in emitted[w] :
        \A f \in {"request_body", "response_body"} \cap DOMAIN rec.call :
            \A k \in PII_FIELDS \cap DOMAIN rec.call[f] :
                /\ f \in DOMAIN rec.fields
                /\ rec.fields[f][k] = REDACTED

\* C6: the correlation id in every log record of a request and in its error
\* body is the request's own X-Correlation-Id (None when absent).
C6_OwnCorrelationId ==
    \A w \in Workers :
        /\ \A rec \in emitted[w] :
            /\ "correlation_id" \in DOMAIN rec.fields
            /\ rec.fields["correlation_id"] = req[w].hdr
        /\ (Done(w) /\ resp[w].kind = "error") => resp[w].correlationId = req[w].hdr

C6_Witness ==
    \E w \in Workers, v \in Workers :
        /\ w # v
        /\ Done(w) /\ resp[w].kind = "error"
        /\ pc[v] \notin {"idle", "done"}
        /\ emitted[v] # {}
        /\ req[v].hdr # req[w].hdr
        /\ ctx[v]["correlation_id"] # ctx[w]["correlation_id"]
        /\ resp[w].correlationId = req[w].hdr

\* C7: the process constructs at most one client, and all requests hold the
\* same one.
C7_SingleClient ==
    /\ constructed <= 1
    /\ \A w \in Workers, v \in Workers : (gdb[w] # 0 /\ gdb[v] # 0) => gdb[w] = gdb[v]

\* C8: every record the handlers receive carries logger, level, timestamp and
\* correlation_id, and every field of the log call that produced it.
C8_EventsStamped ==
    \A w \in Workers : \A rec \in emitted[w] :
        {"logger", "level", "timestamp", "correlation_id"} \cup DOMAIN rec.call
            \subseteq DOMAIN rec.fields

\* C9: in the five validating handlers no store gateway step runs before the
\* handler's validation has succeeded.
C9_ValidationBeforeStore ==
    \A w \in Workers :
        (req[w].op \in IdOps \cup {"CreateCustomer"} /\ touched[w]) => validated[w]

\* C10: logging request_started leaves the body the handler reads as it was
\* submitted: what a successful CreateCustomer / CreateAddress stores is the
\* submitted name, email, phone / line1, never "REDACTED".
StoredBy(w) == find(customers, local[w].oid)
PushedBy(w) ==
    Positional(find_by_address(customers, local[w].oid)[1], local[w].oid)

C10_LoggingKeepsBody ==
    \A w \in Workers :
        /\ pc[w] # "idle" => json[w] = req[w].body
        /\ (Done(w) /\ req[w].op = "CreateCustomer" /\ resp[w].status = 201)
            => /\ Len(StoredBy(w)) = 1
               /\ \A k \in {"name", "email", "phone"} :
                    /\ StoredBy(w)[1][k] = req[w].body[k]
                    /\ StoredBy(w)[1][k] # REDACTED
        /\ (Done(w) /\ req[w].op = "CreateAddress" /\ resp[w].status = 201)
            => /\ PushedBy(w)[1].line1 = req[w].body["line1"]
               /\ PushedBy(w)[1].line1 # REDACTED

C10_Witness ==
    \E w \in Workers, v \in Workers :
        /\ Done(w) /\ req[w].op = "CreateCustomer" /\ resp[w].status = 201
        /\ StoredBy(w)[1].email = CustomerBody["email"]
        /\ Done(v) /\ req[v].op = "CreateAddress" /\ resp[v].status = 201
        /\ PushedBy(v)[1].line1 = AddressBody["line1"]
        /\ \E rec \in emitted[w] : rec.call = StartedCall(CustomerBody)
====
